---- MODULE Spec2Model ----
(***************************************************************************)
(* Dynarmic::FP::FPCR (src/common/fp/fpcr.h): the Floating-Point Control   *)
(* Register as a value type over one u32.                                  *)
(*                                                                         *)
(* A u32 is modelled as the set of its bit positions that hold 1, a subset *)
(* of 0..31 (TLC's integers are 32-bit signed and cannot hold 0xFFFFFFFF). *)
(* U32(hi, lo) builds the u32 whose upper half-word is hi and whose lower  *)
(* half-word is lo, so 0x07FF9F00 is U32(2047, 40704).                     *)
(***************************************************************************)
EXTENDS Integers, FiniteSets

VARIABLES
    value,    \* FPCR::value of the register the calls are made on
    other,    \* FPCR::value of a second FPCR object (source/target of copies, rhs of ==)
    status,   \* "ok", or "aborted" once an ASSERT_MSG has failed
    last,     \* the most recent call: its name, its arguments and its results
    prev,     \* `value` as it was before the most recent call
    start,    \* `value` right after the most recent construction/assignment/copy
    written,  \* per field, the last legal argument a setter wrote since `start`
    nops      \* number of calls made since construction

vars == <<value, other, status, last, prev, start, written, nops>>

(***************************************************************************)
(* Bounds of the model.                                                    *)
(***************************************************************************)
MaxOps == 2          \* calls made on a register after its construction
MaxRaw == 3          \* generated raw u32 inputs besides the corner cases
MaxRModeArg == 4     \* RMode setter is called with encodings 0..MaxRModeArg
MaxStrideArg == 3    \* Stride setter is called with 0..MaxStrideArg
MaxLenArg == 9       \* Len setter is called with 0..MaxLenArg

(***************************************************************************)
(* u32 and the bit utilities of common/bit_util.h.                         *)
(***************************************************************************)
\* The low `width` bits of the integer n (two's complement for n < 0).
BitsOf(n, width) == {i \in 0..(width - 1) : (n \div (2^i)) % 2 = 1}

U32(hi, lo) == BitsOf(lo, 16) \cup {i + 16 : i \in BitsOf(hi, 16)}

\* u32 & u32
And(a, b) == a \cap b

\* Common::Bit<N>(value)
Bit(N, v) == N \in v

\* Common::Bits<lo, hi>(value): the field as an unsigned integer
RECURSIVE BitsUpTo(_, _, _)
BitsUpTo(lo, i, v) ==
    IF i < lo THEN 0
    ELSE (IF i \in v THEN 2^(i - lo) ELSE 0) + BitsUpTo(lo, i - 1, v)

Bits(lo, hi, v) == BitsUpTo(lo, hi, v)

\* Common::ModifyBit<N>(value, new_bit)
ModifyBit(N, v, new_bit) == IF new_bit THEN v \cup {N} ELSE v \ {N}

\* Common::ModifyBits<lo, hi>(value, new_bits): bits lo..hi replaced, the rest untouched
ModifyBits(lo, hi, v, new_bits) ==
    (v \ (lo..hi)) \cup {i + lo : i \in BitsOf(new_bits, hi - lo + 1)}

(***************************************************************************)
(* class FPCR                                                              *)
(***************************************************************************)
\* static constexpr u32 mask = 0x07FF9F00
mask == U32(2047, 40704)

\* FPCR() = default;  u32 value = 0
FPCR_default == {}

\* Variant of FPCR(u32): the mask is not applied.
FPCR_data_Unmasked(data) == data

\* explicit FPCR(u32 data) : value{data & mask}
FPCR_data(data) == And(data, mask)

\* Variant of operator=(u32): the masked data is or-ed into the old value.
AssignData_KeepsOld(v, data) == v \cup And(data, mask)

\* FPCR& operator=(u32 data) { value = data & mask; }
AssignData(v, data) == And(data, mask)

\* FPCR(const FPCR&) = default / FPCR& operator=(const FPCR&) = default
CopyOf(src) == src

\* u32 Value() const
Value(v) == v

\* boost::optional<size_t>
None == [has |-> FALSE, val |-> 0]
Some(n) == [has |-> TRUE, val |-> n]

(***************************************************************************)
(* Getters and setters.  A setter operator is the assignment the setter    *)
(* makes once its ASSERT_MSG (if any) has passed.                          *)
(***************************************************************************)
\* bool AHP() const: alternate half-precision control flag
AHP(v) == Bit(26, v)

\* void AHP(bool ahp)
SetAHP(v, ahp) == ModifyBit(26, v, ahp)

\* bool DN() const: default NaN mode control bit
DN(v) == Bit(25, v)

\* void DN(bool dn)
SetDN(v, dn) == ModifyBit(25, v, dn)

\* bool FZ() const: flush-to-zero mode control bit
FZ(v) == Bit(24, v)

\* Variant of FZ(bool): the bit is written through a two-bit range.
SetFZ_Wide(v, fz) == ModifyBits(24, 25, v, IF fz THEN 1 ELSE 0)

\* void FZ(bool fz)
SetFZ(v, fz) == ModifyBit(24, v, fz)

\* FP::RoundingMode RMode() const, as the enumerator's u32 encoding
RMode(v) == Bits(22, 23, v)

\* ASSERT_MSG(static_cast<u32>(rounding_mode) <= 0b11, ...)
RModeLegal(rounding_mode) == rounding_mode <= 3

\* Variant of RMode(FP::RoundingMode): the written range starts one bit low.
SetRMode_Wide(v, rounding_mode) == ModifyBits(21, 23, v, rounding_mode)

\* void RMode(FP::RoundingMode rounding_mode)
SetRMode(v, rounding_mode) == ModifyBits(22, 23, v, rounding_mode)

\* Variant of Stride(): every non-zero encoding reads as stride 2.
Stride_NonZeroIsTwo(v) == IF Bits(20, 21, v) = 0 THEN Some(1) ELSE Some(2)

\* boost::optional<size_t> Stride() const
Stride(v) ==
    CASE Bits(20, 21, v) = 0 -> Some(1)
      [] Bits(20, 21, v) = 3 -> Some(2)
      [] OTHER -> None

\* ASSERT_MSG(stride >= 1 && stride <= 2, ...)
StrideLegal(stride) == stride >= 1 /\ stride <= 2

\* Variant of Stride(size_t): the stride itself is stored, not its encoding.
SetStride_Raw(v, stride) == ModifyBits(20, 21, v, stride)

\* void Stride(size_t stride)
SetStride(v, stride) == ModifyBits(20, 21, v, IF stride = 1 THEN 0 ELSE 3)

\* bool FZ16() const: flush-to-zero (half-precision specific) mode control bit
FZ16(v) == Bit(19, v)

\* void FZ16(bool fz16)
SetFZ16(v, fz16) == ModifyBit(19, v, fz16)

\* size_t Len() const
Len(v) == Bits(16, 18, v) + 1

\* Variant of Len's assertion: the lower bound is not checked.
LenLegal_NoLowerBound(len) == len <= 8

\* ASSERT_MSG(len >= 1 && len <= 8, ...)
LenLegal(len) == len >= 1 /\ len <= 8

\* Variant of Len(size_t): len is stored without the decrement.
SetLen_NoDecrement(v, len) == ModifyBits(16, 18, v, len)

\* void Len(size_t len): static_cast<u32>(len - 1) wraps for len = 0
SetLen(v, len) == ModifyBits(16, 18, v, len - 1)

\* Variant of IDE(): the bit below is read.
IDE_WrongBit(v) == Bit(14, v)

\* bool IDE() const: input denormal exception trap enable flag
IDE(v) == Bit(15, v)

\* void IDE(bool ide)
SetIDE(v, ide) == ModifyBit(15, v, ide)

\* bool IXE() const: inexact exception trap enable flag
IXE(v) == Bit(12, v)

\* void IXE(bool ixe)
SetIXE(v, ixe) == ModifyBit(12, v, ixe)

\* bool UFE() const: underflow exception trap enable flag
UFE(v) == Bit(11, v)

\* void UFE(bool ufe)
SetUFE(v, ufe) == ModifyBit(11, v, ufe)

\* bool OFE() const: overflow exception trap enable flag
OFE(v) == Bit(10, v)

\* void OFE(bool ofe)
SetOFE(v, ofe) == ModifyBit(10, v, ofe)

\* bool DZE() const: division by zero exception trap enable flag
DZE(v) == Bit(9, v)

\* void DZE(bool dze)
SetDZE(v, dze) == ModifyBit(9, v, dze)

\* bool IOE() const: invalid operation exception trap enable flag
IOE(v) == Bit(8, v)

\* void IOE(bool ioe)
SetIOE(v, ioe) == ModifyBit(8, v, ioe)

\* inline bool operator==(FPCR lhs, FPCR rhs)
OpEq(lhs, rhs) == Value(lhs) = Value(rhs)

\* Variant of operator!=: the negation is missing.
OpNe_NotNegated(lhs, rhs) == OpEq(lhs, rhs)

\* inline bool operator!=(FPCR lhs, FPCR rhs)
OpNe(lhs, rhs) == ~OpEq(lhs, rhs)

(***************************************************************************)
(* Inputs.                                                                 *)
(***************************************************************************)
\* Raw u32 values handed to FPCR(u32) and operator=(u32): 0, 0xFFFFFFFF, the
\* mask 0x07FF9F00, its complement 0xF80060FF, 0x00000001, the two undefined
\* Stride encodings 0x00100000 and 0x00200000, and MaxRaw generated patterns.
RawInputs ==
    {U32(0, 0), U32(65535, 65535), U32(2047, 40704), U32(63488, 24831),
     U32(0, 1), U32(16, 0), U32(32, 0)}
    \cup {U32((k * 40503) % 65536, (k * 25173 + 13849) % 65536) : k \in 1..MaxRaw}

RModeArgs == 0..MaxRModeArg
StrideArgs == 0..MaxStrideArg
LenArgs == 0..MaxLenArg

Fields == {"AHP", "DN", "FZ", "RMode", "Stride", "FZ16", "Len",
           "IDE", "IXE", "UFE", "OFE", "DZE", "IOE"}

(***************************************************************************)
(* Bookkeeping of the calls made (history, not program state).            *)
(***************************************************************************)
Call(op, b, n, data) ==
    [op |-> op, b |-> b, b2 |-> FALSE, n |-> n, data |-> data, data2 |-> {}]

NoWrite == [f \in Fields |-> [set |-> FALSE, b |-> FALSE, n |-> 0]]

\* A constructor/assignment/copy gave the register the value newv.
Replaced(newv, call) ==
    /\ value' = newv
    /\ prev' = value
    /\ start' = newv
    /\ written' = NoWrite
    /\ last' = call
    /\ nops' = nops + 1
    /\ UNCHANGED <<other, status>>

\* The setter of field f ran to completion and left newv.
Wrote(f, newv, b, n) ==
    /\ value' = newv
    /\ prev' = value
    /\ written' = [written EXCEPT ![f] = [set |-> TRUE, b |-> b, n |-> n]]
    /\ last' = Call(f, b, n, {})
    /\ nops' = nops + 1
    /\ UNCHANGED <<other, status, start>>

\* The setter's ASSERT_MSG failed: the process is terminated before any write.
Aborted(f, n) ==
    /\ status' = "aborted"
    /\ prev' = value
    /\ last' = Call(f, FALSE, n, {})
    /\ nops' = nops + 1
    /\ UNCHANGED <<value, other, start, written>>

Running == status = "ok" /\ nops < MaxOps

(***************************************************************************)
(* Construction.                                                           *)
(***************************************************************************)
Constructed(v, call) ==
    /\ value = v
    /\ other = FPCR_default
    /\ status = "ok"
    /\ last = call
    /\ prev = v
    /\ start = v
    /\ written = NoWrite
    /\ nops = 0

InitDefault == Constructed(FPCR_default, Call("FPCR()", FALSE, 0, {}))

InitData == \E data \in RawInputs :
    Constructed(FPCR_data(data), Call("FPCR(u32)", FALSE, 0, data))

Init == InitDefault \/ InitData

(***************************************************************************)
(* Calls on the register.                                                  *)
(***************************************************************************)
\* reg = data
CallAssignData == \E data \in RawInputs :
    /\ Running
    /\ Replaced(AssignData(value, data), Call("operator=(u32)", FALSE, 0, data))

\* FPCR other(reg)
CallCopyConstruct ==
    /\ Running
    /\ other' = CopyOf(value)
    /\ prev' = value
    /\ last' = Call("FPCR(const FPCR&)", FALSE, 0, {})
    /\ nops' = nops + 1
    /\ UNCHANGED <<value, status, start, written>>

\* FPCR other(reg.Value()): the raw value persisted and restored
CallConstructFromValue ==
    /\ Running
    /\ other' = FPCR_data(Value(value))
    /\ prev' = value
    /\ last' = Call("FPCR(Value())", FALSE, 0, Value(value))
    /\ nops' = nops + 1
    /\ UNCHANGED <<value, status, start, written>>

\* reg = other
CallCopyAssign ==
    /\ Running
    /\ Replaced(CopyOf(other), Call("operator=(const FPCR&)", FALSE, 0, {}))

CallAHP == \E ahp \in BOOLEAN :
    /\ Running
    /\ Wrote("AHP", SetAHP(value, ahp), ahp, 0)

CallDN == \E dn \in BOOLEAN :
    /\ Running
    /\ Wrote("DN", SetDN(value, dn), dn, 0)

CallFZ == \E fz \in BOOLEAN :
    /\ Running
    /\ Wrote("FZ", SetFZ(value, fz), fz, 0)

CallRMode == \E rounding_mode \in RModeArgs :
    /\ Running
    /\ IF RModeLegal(rounding_mode)
       THEN Wrote("RMode", SetRMode(value, rounding_mode), FALSE, rounding_mode)
       ELSE Aborted("RMode", rounding_mode)

CallStride == \E stride \in StrideArgs :
    /\ Running
    /\ IF StrideLegal(stride)
       THEN Wrote("Stride", SetStride(value, stride), FALSE, stride)
       ELSE Aborted("Stride", stride)

CallFZ16 == \E fz16 \in BOOLEAN :
    /\ Running
    /\ Wrote("FZ16", SetFZ16(value, fz16), fz16, 0)

CallLen == \E len \in LenArgs :
    /\ Running
    /\ IF LenLegal(len)
       THEN Wrote("Len", SetLen(value, len), FALSE, len)
       ELSE Aborted("Len", len)

CallIDE == \E ide \in BOOLEAN :
    /\ Running
    /\ Wrote("IDE", SetIDE(value, ide), ide, 0)

CallIXE == \E ixe \in BOOLEAN :
    /\ Running
    /\ Wrote("IXE", SetIXE(value, ixe), ixe, 0)

CallUFE == \E ufe \in BOOLEAN :
    /\ Running
    /\ Wrote("UFE", SetUFE(value, ufe), ufe, 0)

CallOFE == \E ofe \in BOOLEAN :
    /\ Running
    /\ Wrote("OFE", SetOFE(value, ofe), ofe, 0)

CallDZE == \E dze \in BOOLEAN :
    /\ Running
    /\ Wrote("DZE", SetDZE(value, dze), dze, 0)

CallIOE == \E ioe \in BOOLEAN :
    /\ Running
    /\ Wrote("IOE", SetIOE(value, ioe), ioe, 0)

Next ==
    \/ CallAssignData \/ CallCopyConstruct \/ CallConstructFromValue \/ CallCopyAssign
    \/ CallAHP \/ CallDN \/ CallFZ \/ CallRMode \/ CallStride \/ CallFZ16 \/ CallLen
    \/ CallIDE \/ CallIXE \/ CallUFE \/ CallOFE \/ CallDZE \/ CallIOE

Spec == Init /\ [][Next]_vars

(***************************************************************************)
(* operator== and operator!= as functions of two raw inputs: lhs = FPCR(x) *)
(* is held in `value`, rhs = FPCR(y) in `other`; last.b holds the result   *)
(* of lhs == rhs and last.b2 the result of lhs != rhs.                     *)
(***************************************************************************)
InitEq == \E x \in RawInputs, y \in RawInputs :
    /\ value = FPCR_data(x)
    /\ other = FPCR_data(y)
    /\ status = "ok"
    /\ last = [op |-> "FPCR(u32)", b |-> FALSE, b2 |-> FALSE, n |-> 0,
               data |-> x, data2 |-> y]
    /\ prev = value
    /\ start = value
    /\ written = NoWrite
    /\ nops = 0

\* lhs == rhs
CompareEq ==
    /\ last.op \in {"FPCR(u32)", "operator!="}
    /\ last' = [last EXCEPT !.op = IF last.op = "FPCR(u32)" THEN "operator==" ELSE "compared",
                            !.b = OpEq(value, other)]
    /\ UNCHANGED <<value, other, status, prev, start, written, nops>>

\* lhs != rhs
CompareNe ==
    /\ last.op \in {"FPCR(u32)", "operator=="}
    /\ last' = [last EXCEPT !.op = IF last.op = "FPCR(u32)" THEN "operator!=" ELSE "compared",
                            !.b2 = OpNe(value, other)]
    /\ UNCHANGED <<value, other, status, prev, start, written, nops>>

NextEq == CompareEq \/ CompareNe

SpecEq == InitEq /\ [][NextEq]_vars

(***************************************************************************)
(* Vocabulary of the properties: the architectural layout as the           *)
(* specification states it, independent of the definitions above.          *)
(***************************************************************************)
\* Bits 0-7, 13-14 and 27-31
ReservedBits == (0..7) \cup {13, 14} \cup (27..31)

\* 0x07FF9F00
ArchMask == U32(2047, 40704)

\* 0xFFFFFFFF
AllOnes == 0..31

FieldRange(f) ==
    CASE f = "AHP" -> {26}
      [] f = "DN" -> {25}
      [] f = "FZ" -> {24}
      [] f = "RMode" -> 22..23
      [] f = "Stride" -> 20..21
      [] f = "FZ16" -> {19}
      [] f = "Len" -> 16..18
      [] f = "IDE" -> {15}
      [] f = "IXE" -> {12}
      [] f = "UFE" -> {11}
      [] f = "OFE" -> {10}
      [] f = "DZE" -> {9}
      [] f = "IOE" -> {8}

BoolFields == Fields \ {"RMode", "Stride", "Len"}

\* The legal domain of the integer argument of field f's setter.
LegalArg(f, n) ==
    CASE f = "RMode" -> n \in 0..3
      [] f = "Stride" -> n \in {1, 2}
      [] f = "Len" -> n \in 1..8
      [] OTHER -> TRUE

\* The arguments <<b, n>> in the legal domain of field f's setter.
LegalArgs(f) ==
    CASE f = "RMode" -> {<<FALSE, n>> : n \in 0..3}
      [] f = "Stride" -> {<<FALSE, n>> : n \in {1, 2}}
      [] f = "Len" -> {<<FALSE, n>> : n \in 1..8}
      [] OTHER -> {<<b, 0>> : b \in BOOLEAN}

\* The most recent call was a setter called with a legal argument.
LegalSetterCall == last.op \in Fields /\ LegalArg(last.op, last.n)

\* The getter of field f.
Get(f, v) ==
    CASE f = "AHP" -> AHP(v)
      [] f = "DN" -> DN(v)
      [] f = "FZ" -> FZ(v)
      [] f = "RMode" -> RMode(v)
      [] f = "Stride" -> Stride(v)
      [] f = "FZ16" -> FZ16(v)
      [] f = "Len" -> Len(v)
      [] f = "IDE" -> IDE(v)
      [] f = "IXE" -> IXE(v)
      [] f = "UFE" -> UFE(v)
      [] f = "OFE" -> OFE(v)
      [] f = "DZE" -> DZE(v)
      [] f = "IOE" -> IOE(v)

\* The setter of field f applied to the argument b (boolean fields) or n.
Set(f, b, n, v) ==
    CASE f = "AHP" -> SetAHP(v, b)
      [] f = "DN" -> SetDN(v, b)
      [] f = "FZ" -> SetFZ(v, b)
      [] f = "RMode" -> SetRMode(v, n)
      [] f = "Stride" -> SetStride(v, n)
      [] f = "FZ16" -> SetFZ16(v, b)
      [] f = "Len" -> SetLen(v, n)
      [] f = "IDE" -> SetIDE(v, b)
      [] f = "IXE" -> SetIXE(v, b)
      [] f = "UFE" -> SetUFE(v, b)
      [] f = "OFE" -> SetOFE(v, b)
      [] f = "DZE" -> SetDZE(v, b)
      [] f = "IOE" -> SetIOE(v, b)

\* The integer held by bits lo..lo+2 of v, spelled out bit by bit.
Field3(lo, v) ==
    (IF lo \in v THEN 1 ELSE 0) + (IF (lo + 1) \in v THEN 2 ELSE 0)
        + (IF (lo + 2) \in v THEN 4 ELSE 0)

\* The integer held by bits lo..lo+1 of v.
Field2(lo, v) == (IF lo \in v THEN 1 ELSE 0) + (IF (lo + 1) \in v THEN 2 ELSE 0)

(***************************************************************************)
(* Properties.                                                             *)
(***************************************************************************)
\* C1 Reserved-bit invariant: in every state reached from a default-constructed
\* or integer-constructed register by raw assignments, copies and setter calls,
\* bits 0-7, 13-14 and 27-31 of every register's raw value are 0.
C1_ReservedBitsZero ==
    /\ Value(value) \cap ReservedBits = {}
    /\ Value(other) \cap ReservedBits = {}

\* A raw value with reserved bits set was assigned to a non-zero register.
C1_Witness ==
    /\ last.op = "operator=(u32)"
    /\ last.data \cap ReservedBits # {}
    /\ prev # {}
    /\ value # {}

\* C2 Masking on construction and assignment: FPCR(x) and reg = x both leave
\* Value() = x & 0x07FF9F00 whatever the register held before, and a register
\* constructed from the Value() of a reachable register has that same Value().
C2_MaskingLaw ==
    /\ last.op \in {"FPCR(u32)", "operator=(u32)"} =>
           Value(value) = last.data \cap ArchMask
    /\ last.op = "FPCR(Value())" =>
           /\ last.data = Value(value)
           /\ Value(other) = Value(value)

\* A raw value with reserved bits was assigned over a register holding bits the
\* raw value lacks.
C2_Witness ==
    /\ last.op = "operator=(u32)"
    /\ last.data \cap ReservedBits # {}
    /\ (prev \ last.data) # {}

\* C3 Field round-trip: after the setter of any field is called with a value of
\* its legal domain, the field's getter returns exactly that value (for Stride,
\* a present optional holding it).
C3_FieldRoundTrip ==
    LegalSetterCall =>
        /\ status = "ok"
        /\ last.op \in BoolFields => Get(last.op, value) = last.b
        /\ last.op \in {"RMode", "Len"} => Get(last.op, value) = last.n
        /\ last.op = "Stride" => Stride(value) = [has |-> TRUE, val |-> last.n]

\* Stride(2) was called on a register whose Stride encoding was undefined.
C3_Witness ==
    /\ last.op = "Stride"
    /\ last.n = 2
    /\ Cardinality(prev \cap (20..21)) = 1

\* C4 Setter frame condition: a setter called with a legal argument changes raw
\* bits of its own field's range only, so every other field's getter returns
\* what it returned before; an undefined Stride encoding survives every setter
\* but the Stride setter.
C4_SetterFrame ==
    LegalSetterCall =>
        /\ Value(value) \ FieldRange(last.op) = prev \ FieldRange(last.op)
        /\ \A g \in Fields \ {last.op} : Get(g, value) = Get(g, prev)
        /\ last.op # "Stride" => value \cap (20..21) = prev \cap (20..21)

\* A setter other than Stride's changed a register whose Stride encoding is 01.
C4_Witness ==
    /\ last.op = "DZE"
    /\ value # prev
    /\ value \cap (20..21) = {20}

\* C5 Fail-fast on contract violation: the Stride setter called with a value
\* not in {1,2}, the Len setter with a value outside 1..8, or the RMode setter
\* with an encoding above 3 ends in the abort outcome; the register is not
\* modified and no further state follows.
C5_FailFast ==
    (last.op \in Fields /\ ~LegalArg(last.op, last.n)) =>
        /\ status = "aborted"
        /\ value = prev
        /\ ~ENABLED Next

\* Len(0) was called.
C5_Witness ==
    /\ last.op = "Len"
    /\ last.n = 0
    /\ status = "aborted"

\* C6 Stride encoding law: the Stride getter returns 1 for raw bits 20-21 = 00,
\* 2 for 11 and none for 01 and 10; Stride(1) leaves 00 and Stride(2) leaves 11
\* in bits 20-21, whatever they held before.
C6_StrideLaw ==
    /\ \A v \in {value, other} :
        /\ Field2(20, v) = 0 => Stride(v) = [has |-> TRUE, val |-> 1]
        /\ Field2(20, v) = 3 => Stride(v) = [has |-> TRUE, val |-> 2]
        /\ Field2(20, v) \in {1, 2} => ~Stride(v).has
    /\ (last.op = "Stride" /\ last.n = 1) => value \cap (20..21) = {}
    /\ (last.op = "Stride" /\ last.n = 2) => value \cap (20..21) = {20, 21}

\* Stride(1) was called on a register whose Stride encoding was 10.
C6_Witness ==
    /\ last.op = "Stride"
    /\ last.n = 1
    /\ prev \cap (20..21) = {21}
    /\ ~Stride(prev).has

\* C7 Len encoding law: the Len getter returns (raw bits 16-18) + 1, always in
\* 1..8; after Len(n) with n in 1..8 the sub-field in bits 16-18 holds n - 1
\* and Len() returns n.
C7_LenLaw ==
    /\ \A v \in {value, other} :
        /\ Len(v) = Field3(16, v) + 1
        /\ Len(v) \in 1..8
    /\ (last.op = "Len" /\ last.n \in 1..8) =>
        /\ Field3(16, value) = last.n - 1
        /\ Len(value) = last.n

\* Len(8) was called on a register whose Len was smaller.
C7_Witness ==
    /\ last.op = "Len"
    /\ last.n = 8
    /\ Field3(16, prev) < 7
    /\ status = "ok"

\* C8 Equality law: FPCR(x) == FPCR(y) iff x & 0x07FF9F00 = y & 0x07FF9F00,
\* and operator!= is exactly the negation of operator==.
C8_EqualityLaw ==
    /\ last.op \in {"operator==", "compared"} =>
           (last.b <=> (last.data \cap ArchMask = last.data2 \cap ArchMask))
    /\ last.op \in {"operator!=", "compared"} =>
           (last.b2 <=> (last.data \cap ArchMask # last.data2 \cap ArchMask))
    /\ last.op = "compared" => (last.b2 <=> ~last.b)

\* Two registers built from raw values that differ in reserved bits only were
\* compared and found equal.
C8_Witness ==
    /\ last.op = "compared"
    /\ last.data # last.data2
    /\ last.data \cap ArchMask # {}
    /\ last.b
    /\ ~last.b2

\* C9 Bit layout: on a register constructed from x every boolean getter returns
\* the bit of x at its architectural position and RMode returns bits 22-23 of
\* x; FPCR(0xFFFFFFFF) has Value() 0x07FF9F00 and reads every field at its
\* maximum; a default-constructed register has Value() 0 and reads all
\* booleans false, RMode 0, Stride 1, Len 1.
C9_BitLayout ==
    /\ last.op = "FPCR(u32)" =>
        /\ \A f \in BoolFields : \A i \in FieldRange(f) :
               Get(f, value) = (i \in last.data)
        /\ RMode(value) = Field2(22, last.data)
    /\ (last.op = "FPCR(u32)" /\ last.data = AllOnes) =>
        /\ Value(value) = ArchMask
        /\ \A f \in BoolFields : Get(f, value) = TRUE
        /\ RMode(value) = 3
        /\ Stride(value) = [has |-> TRUE, val |-> 2]
        /\ Len(value) = 8
    /\ last.op = "FPCR()" =>
        /\ Value(value) = {}
        /\ \A f \in BoolFields : Get(f, value) = FALSE
        /\ RMode(value) = 0
        /\ Stride(value) = [has |-> TRUE, val |-> 1]
        /\ Len(value) = 1

\* A register was constructed from 0xFFFFFFFF.
C9_Witness ==
    /\ last.op = "FPCR(u32)"
    /\ last.data = AllOnes
    /\ nops = 0

\* The last legal argument written to field f since `start`, applied to v.
LastWrite(f, v) ==
    IF written[f].set THEN Set(f, written[f].b, written[f].n, v) ELSE v

\* The setters last called on each field, applied to `start` in the fixed order
\* AHP, DN, FZ, RMode, Stride, FZ16, Len, IDE, IXE, UFE, OFE, DZE, IOE.
InFixedOrder ==
    LastWrite("IOE", LastWrite("DZE", LastWrite("OFE", LastWrite("UFE",
        LastWrite("IXE", LastWrite("IDE", LastWrite("Len", LastWrite("FZ16",
        LastWrite("Stride", LastWrite("RMode", LastWrite("FZ", LastWrite("DN",
        LastWrite("AHP", start)))))))))))))

\* C10 Order independence of setters: a legal setter call commutes with every
\* legal setter call on another field and is idempotent, so the value after any
\* sequence of legal setter calls is determined by the starting value and the
\* last argument written to each field.
C10_OrderIndependence ==
    /\ LegalSetterCall =>
        /\ Set(last.op, last.b, last.n, value) = value
        /\ \A g \in Fields \ {last.op} : \A a \in LegalArgs(g) :
               Set(last.op, last.b, last.n, Set(g, a[1], a[2], prev))
                   = Set(g, a[1], a[2], value)
    /\ status = "ok" => value = InFixedOrder

\* Len was written and then AHP, the reverse of the fixed order, and both
\* changed the register.
C10_Witness ==
    /\ last.op = "AHP"
    /\ written["Len"].set
    /\ written["AHP"].set
    /\ value # prev
    /\ prev # start

====
